---- MODULE Spec2Model ----
(***************************************************************************)
(* A model of filter_plugins/kea.py: the pydantic (v1) schema of a Kea     *)
(* DHCPv4 configuration, its validators, and the filter get_kea4_config    *)
(* that parses an untyped document and renders it as JSON.                 *)
(*                                                                         *)
(* Text.  A Python str is a sequence of tokens.  The characters the code   *)
(* looks at ("-", "_" and the blank) are tokens of their own; every other  *)
(* token is a maximal run of other characters ("10.0.0.10", "lifetime").   *)
(* "valid_lifetime" is <<"valid", "_", "lifetime">>.                       *)
(*                                                                         *)
(* Documents.  A JSON / Python value is a tagged record:                   *)
(*   [t |-> "null"], [t |-> "bool", b], [t |-> "int", n], [t |-> "str", s],*)
(*   [t |-> "list", items], [t |-> "obj", kv] with kv a sequence of        *)
(*   [k |-> key, v |-> value] in the mapping's order.                      *)
(* Validated values add [t |-> "path", s], [t |-> "ipv4", n],              *)
(* [t |-> "ipv4net", s] and [t |-> "model", cls, kv].                      *)
(***************************************************************************)
EXTENDS Integers, Sequences, FiniteSets, TLC

VARIABLES
    pc,         \* "import" while the module body runs, then "ready" / "returned"
    defined,    \* number of model classes whose class statement has run
    cache,      \* lru_cache of kea_alias_generator: <<[k, v], ...>>, most recent first
    alias,      \* alias[cls][i]: the alias pydantic stored for field i of class cls
    data,       \* the caller's document, as it is after the call
    result,     \* what get_kea4_config returned or raised
    calls,      \* number of completed calls
    lastOk      \* whether the previous call returned (TRUE) or raised (FALSE)

vars == <<pc, defined, cache, alias, data, result, calls, lastOk>>

----------------------------------------------------------------------------
(* Bounds of the model *)

\* longest pool list drawn as input
MaxPoolLen == 3
\* longest pool string drawn as input, in tokens
MaxStrLen == 5
\* number of calls of get_kea4_config in one run
MaxCalls == 2

----------------------------------------------------------------------------
(* Values *)

Null == [t |-> "null"]
B(b) == [t |-> "bool", b |-> b]
I(n) == [t |-> "int", n |-> n]
S(s) == [t |-> "str", s |-> s]
L(items) == [t |-> "list", items |-> items]
O(kv) == [t |-> "obj", kv |-> kv]
KV(k, v) == [k |-> k, v |-> v]

Keys(kv) == [i \in DOMAIN kv |-> kv[i].k]
HasKey(kv, k) == \E i \in DOMAIN kv : kv[i].k = k
Get(kv, k) == kv[CHOOSE i \in DOMAIN kv : kv[i].k = k].v

RECURSIVE Concat(_)
Concat(ss) == IF ss = <<>> THEN <<>> ELSE Head(ss) \o Concat(Tail(ss))

----------------------------------------------------------------------------
(* Python str operations on token sequences *)

IsBlank(tok) == tok = " "

\* str.strip(): drop the leading and trailing whitespace
Strip(s) ==
    LET keep == {i \in DOMAIN s : ~IsBlank(s[i])}
    IN  IF keep = {} THEN <<>>
        ELSE LET lo == CHOOSE i \in keep : \A j \in keep : i <= j
                 hi == CHOOSE i \in keep : \A j \in keep : j <= i
             IN  SubSeq(s, lo, hi)

\* str.split(sep): the parts between the occurrences of sep, empty parts kept
RECURSIVE Split(_, _)
Split(s, sep) ==
    LET at == {i \in DOMAIN s : s[i] = sep}
    IN  IF at = {} THEN <<s>>
        ELSE LET i == CHOOSE x \in at : \A y \in at : x <= y
             IN  <<SubSeq(s, 1, i - 1)>> \o Split(SubSeq(s, i + 1, Len(s)), sep)

\* sep.join(parts)
RECURSIVE Join(_, _)
Join(sep, parts) ==
    IF parts = <<>> THEN <<>>
    ELSE IF Len(parts) = 1 THEN parts[1]
    ELSE parts[1] \o sep \o Join(sep, Tail(parts))

\* str.replace(old, new) for one-character old and new
Replace(s, old, new) == [i \in DOMAIN s |-> IF s[i] = old THEN new ELSE s[i]]

\* The tokens of the keys of a rendered document, in Python's str order
\* (code point order: blank < "-" < digits < upper case < "_" < lower case).
TokenOrder ==
    << " ", "-", "Dhcp4", "_", "address", "addresses", "always", "array",
       "authoritative", "checks", "circuit", "class", "classes", "client",
       "code", "comment", "config", "context", "control", "csv", "cycles",
       "data", "database", "debuglevel", "def", "detect", "dhcp",
       "encapsulation", "expired", "flush", "format", "hold", "hostname",
       "hw", "id", "interface", "interfaces", "interval", "ip", "lease",
       "leases", "lfc", "lifetime", "loggers", "max", "maxsize", "maxver",
       "min", "name", "note", "option", "options", "outbound", "output",
       "pattern", "pool", "pools", "processing", "re", "rebind", "reclaim",
       "reclaimed", "record", "relay", "renew", "require", "reservations",
       "sanity", "send", "server", "severity", "site", "socket", "space",
       "subnet", "subnet4", "test", "time", "timer", "type", "types",
       "unwarned", "user", "valid", "wait" >>

Rank(tok) == CHOOSE i \in DOMAIN TokenOrder : TokenOrder[i] = tok

\* a < b for two str: at the first token that differs the smaller token
\* decides; a proper prefix is smaller
StrLess(a, b) ==
    LET diff == {i \in 1..Len(a) : i > Len(b) \/ a[i] # b[i]}
    IN  IF diff = {} THEN Len(a) < Len(b)
        ELSE LET i == CHOOSE x \in diff : \A y \in diff : x <= y
             IN  i <= Len(b) /\ Rank(a[i]) < Rank(b[i])

----------------------------------------------------------------------------
(* Field-name translation *)

\* the mutant: the exception map is not consulted
kea_alias_generator_NoException(k) == Replace(k, "_", "-")

kea_alias_generator(k) ==
    LET exception_map == <<KV(<<"output", "_", "options">>,
                              <<"output", "_", "options">>)>>
    IN  IF HasKey(exception_map, k) THEN Get(exception_map, k)
        ELSE Replace(k, "_", "-")

\* maxsize of the lru_cache around kea_alias_generator
lru_maxsize == 256

\* the mutant: a hit returns the value of the most recent entry
CachedCall_Stale(c, k) ==
    IF HasKey(c, k)
    THEN [cache |-> <<KV(k, c[1].v)>> \o SelectSeq(c, LAMBDA e : e.k # k),
          v |-> c[1].v]
    ELSE [cache |-> <<KV(k, kea_alias_generator(k))>> \o c,
          v |-> kea_alias_generator(k)]

\* One call through functools.lru_cache: a hit returns the stored value and
\* makes the entry the most recent; a miss computes the value, stores it and
\* drops the least recently used entry beyond maxsize.
CachedCall(c, k) ==
    IF HasKey(c, k)
    THEN LET v == Get(c, k)
         IN  [cache |-> <<KV(k, v)>> \o SelectSeq(c, LAMBDA e : e.k # k),
              v |-> v]
    ELSE LET v == kea_alias_generator(k)
             grown == <<KV(k, v)>> \o c
         IN  [cache |-> IF Len(grown) > lru_maxsize
                        THEN SubSeq(grown, 1, lru_maxsize) ELSE grown,
              v |-> v]

----------------------------------------------------------------------------
(* The schema: one definition per model class, its fields in declaration  *)
(* order (inherited fields first).                                         *)
(*   F(name, type, allow_none, default)                                    *)

TStr == [k |-> "str"]
TBool == [k |-> "bool"]
NonNegativeInt == [k |-> "int", gt |-> -1]
PositiveInt == [k |-> "int", gt |-> 0]
TPath == [k |-> "path"]
TDict == [k |-> "dict"]
IPv4Address == [k |-> "ipv4"]
IPv4Network == [k |-> "ipv4net"]
Literal(vals) == [k |-> "lit", vals |-> vals]
List(of) == [k |-> "list", of |-> of]
Model(cls) == [k |-> "model", cls |-> cls]

Required == [k |-> "required"]
NoDefault == [k |-> "value", v |-> Null]
Default(v) == [k |-> "value", v |-> v]
DefaultFactory(f) == [k |-> "factory", f |-> f]

F(name, ty, allow_none, def) ==
    [name |-> name, ty |-> ty, allow_none |-> allow_none, def |-> def]
\* x: Optional[T]
Opt(name, ty) == F(name, ty, TRUE, NoDefault)
\* x: Optional[T] = Field(default=v)
OptDef(name, ty, v) == F(name, ty, TRUE, Default(v))
\* x: T
Req(name, ty) == F(name, ty, FALSE, Required)

KeaLoggerOutput ==
    << Req(<<"output">>, TPath),
       Opt(<<"pattern">>, TStr),
       OptDef(<<"flush">>, TBool, B(FALSE)),
       Opt(<<"maxsize">>, PositiveInt),
       Opt(<<"maxver">>, PositiveInt) >>

KeaLogger ==
    << Req(<<"name">>, TStr),
       Req(<<"output", "_", "options">>, List(Model("KeaLoggerOutput"))),
       Req(<<"severity">>, TStr),
       F(<<"debuglevel">>, NonNegativeInt, FALSE, Default(I(0))) >>

KeaControlSocket ==
    << F(<<"socket", "_", "type">>, Literal({<<"unix">>}), FALSE,
         Default(S(<<"unix">>))),
       Req(<<"socket", "_", "name">>, TPath) >>

KeaBaseConfigContainer == <<>>

KeaLeaseDatabase ==
    << OptDef(<<"type">>, TStr, S(<<"memfile">>)),
       OptDef(<<"lfc", "_", "interval">>, NonNegativeInt, I(3600)) >>

KeaExpiredLeasesProcessing ==
    << OptDef(<<"reclaim", "_", "timer", "_", "wait", "_", "time">>,
              NonNegativeInt, I(10)),
       OptDef(<<"flush", "_", "reclaimed", "_", "timer", "_", "wait", "_", "time">>,
              NonNegativeInt, I(25)),
       OptDef(<<"hold", "_", "reclaimed", "_", "time">>, NonNegativeInt, I(3600)),
       OptDef(<<"max", "_", "reclaim", "_", "leases">>, NonNegativeInt, I(100)),
       OptDef(<<"max", "_", "reclaim", "_", "time">>, NonNegativeInt, I(250)),
       OptDef(<<"unwarned", "_", "reclaim", "_", "cycles">>, NonNegativeInt, I(5)) >>

KeaDhcpOptionBase ==
    << Opt(<<"name">>, TStr),
       Opt(<<"code">>, NonNegativeInt),
       Opt(<<"space">>, TStr) >>

KeaDhcpOptionDef ==
    KeaDhcpOptionBase \o
    << Opt(<<"array">>, TBool),
       Opt(<<"encapsulation">>, TStr),
       Opt(<<"record", "_", "types">>, TStr),
       Req(<<"type">>, TStr) >>

KeaDhcpOption ==
    KeaDhcpOptionBase \o
    << Opt(<<"data">>, TStr),
       Opt(<<"always", "_", "send">>, TBool),
       Opt(<<"csv", "_", "format">>, TBool) >>

KeaDhcpClientClass ==
    << Req(<<"name">>, TStr),
       Req(<<"test">>, TStr),
       Opt(<<"option", "_", "data">>, List(Model("KeaDhcpOption"))),
       Opt(<<"option", "_", "def">>, List(Model("KeaDhcpOptionDef"))) >>

KeaClient4Reservation ==
    << Opt(<<"client", "_", "id">>, TStr),
       Opt(<<"circuit", "_", "id">>, TStr),
       Opt(<<"hw", "_", "address">>, TStr),
       Opt(<<"hostname">>, TStr),
       Opt(<<"ip", "_", "address">>, IPv4Address),
       Opt(<<"option", "_", "data">>, List(Model("KeaDhcpOption"))),
       Opt(<<"option", "_", "def">>, List(Model("KeaDhcpOptionDef"))) >>

KeaRelay4 ==
    << Req(<<"ip", "_", "addresses">>, List(IPv4Address)) >>

KeaPoolCommon ==
    << Opt(<<"option", "_", "data">>, List(Model("KeaDhcpOption"))),
       Opt(<<"option", "_", "def">>, List(Model("KeaDhcpOptionDef"))),
       Opt(<<"server", "_", "hostname">>, TStr),
       Opt(<<"client", "_", "class">>, TStr),
       Opt(<<"require", "_", "client", "_", "classes">>, List(TStr)),
       Opt(<<"user", "_", "context">>, TDict) >>

KeaPool4 ==
    KeaPoolCommon \o
    << Req(<<"pool">>, TStr) >>

KeaSubnet4 ==
    KeaPoolCommon \o
    << Opt(<<"authoritative">>, TBool),
       Req(<<"subnet">>, IPv4Network),
       Opt(<<"pools">>, List(Model("KeaPool4"))),
       Opt(<<"min", "_", "valid", "_", "lifetime">>, NonNegativeInt),
       Opt(<<"valid", "_", "lifetime">>, NonNegativeInt),
       Opt(<<"max", "_", "valid", "_", "lifetime">>, NonNegativeInt),
       Opt(<<"renew", "_", "timer">>, NonNegativeInt),
       Opt(<<"rebind", "_", "timer">>, NonNegativeInt),
       Opt(<<"relay">>, Model("KeaRelay4")),
       Opt(<<"interface">>, TStr),
       Opt(<<"reservations">>, List(Model("KeaClient4Reservation"))) >>

KeaInterfacesConfig ==
    << Opt(<<"interfaces">>, List(TStr)),
       Opt(<<"dhcp", "_", "socket", "_", "type">>, Literal({<<"raw">>, <<"udp">>})),
       OptDef(<<"outbound", "_", "interface">>,
              Literal({<<"use", "-", "routing">>, <<"same", "-", "as", "-", "inbound">>}),
              S(<<"same", "-", "as", "-", "inbound">>)),
       OptDef(<<"re", "_", "detect">>, TBool, B(TRUE)) >>

KeaSanityChecks ==
    << OptDef(<<"lease", "_", "checks">>,
              Literal({<<"none">>, <<"warn">>, <<"fix">>, <<"fix", "-", "del">>, <<"del">>}),
              S(<<"fix", "-", "del">>)) >>

KeaDhcp4Config ==
    KeaBaseConfigContainer \o
    << Opt(<<"authoritative">>, TBool),
       Opt(<<"interfaces", "_", "config">>, Model("KeaInterfacesConfig")),
       Opt(<<"sanity", "_", "checks">>, Model("KeaSanityChecks")),
       F(<<"lease", "_", "database">>, Model("KeaLeaseDatabase"), TRUE,
         DefaultFactory("KeaLeaseDatabase")),
       F(<<"control", "_", "socket">>, Model("KeaControlSocket"), FALSE,
         DefaultFactory("get_default_kea4")),
       F(<<"expired", "_", "leases", "_", "processing">>,
         Model("KeaExpiredLeasesProcessing"), TRUE,
         DefaultFactory("KeaExpiredLeasesProcessing")),
       Opt(<<"min", "_", "valid", "_", "lifetime">>, NonNegativeInt),
       OptDef(<<"valid", "_", "lifetime">>, NonNegativeInt, I(3600)),
       Opt(<<"max", "_", "valid", "_", "lifetime">>, NonNegativeInt),
       Opt(<<"renew", "_", "timer">>, NonNegativeInt),
       Opt(<<"rebind", "_", "timer">>, NonNegativeInt),
       Opt(<<"option", "_", "data">>, List(Model("KeaDhcpOption"))),
       Opt(<<"option", "_", "def">>, List(Model("KeaDhcpOptionDef"))),
       Opt(<<"client", "_", "classes">>, List(Model("KeaDhcpClientClass"))),
       Opt(<<"server", "_", "hostname">>, TStr),
       Opt(<<"subnet4">>, List(Model("KeaSubnet4"))),
       F(<<"loggers">>, List(Model("KeaLogger")), TRUE,
         DefaultFactory("get_default_dhcp4")) >>

KeaConfigFileDhcp4 ==
    << Req(<<"Dhcp4">>, Model("KeaDhcp4Config")) >>

\* the class statements of the module, in the order they run at import
ClassOrder ==
    << "KeaLoggerOutput", "KeaLogger", "KeaControlSocket",
       "KeaBaseConfigContainer", "KeaLeaseDatabase",
       "KeaExpiredLeasesProcessing", "KeaDhcpOptionBase", "KeaDhcpOptionDef",
       "KeaDhcpOption", "KeaDhcpClientClass", "KeaClient4Reservation",
       "KeaRelay4", "KeaPoolCommon", "KeaPool4", "KeaSubnet4",
       "KeaInterfacesConfig", "KeaSanityChecks", "KeaDhcp4Config",
       "KeaConfigFileDhcp4" >>

Classes == {ClassOrder[i] : i \in DOMAIN ClassOrder}

Fields(cls) ==
    CASE cls = "KeaLoggerOutput" -> KeaLoggerOutput
      [] cls = "KeaLogger" -> KeaLogger
      [] cls = "KeaControlSocket" -> KeaControlSocket
      [] cls = "KeaBaseConfigContainer" -> KeaBaseConfigContainer
      [] cls = "KeaLeaseDatabase" -> KeaLeaseDatabase
      [] cls = "KeaExpiredLeasesProcessing" -> KeaExpiredLeasesProcessing
      [] cls = "KeaDhcpOptionBase" -> KeaDhcpOptionBase
      [] cls = "KeaDhcpOptionDef" -> KeaDhcpOptionDef
      [] cls = "KeaDhcpOption" -> KeaDhcpOption
      [] cls = "KeaDhcpClientClass" -> KeaDhcpClientClass
      [] cls = "KeaClient4Reservation" -> KeaClient4Reservation
      [] cls = "KeaRelay4" -> KeaRelay4
      [] cls = "KeaPoolCommon" -> KeaPoolCommon
      [] cls = "KeaPool4" -> KeaPool4
      [] cls = "KeaSubnet4" -> KeaSubnet4
      [] cls = "KeaInterfacesConfig" -> KeaInterfacesConfig
      [] cls = "KeaSanityChecks" -> KeaSanityChecks
      [] cls = "KeaDhcp4Config" -> KeaDhcp4Config
      [] cls = "KeaConfigFileDhcp4" -> KeaConfigFileDhcp4

\* BaseKeaModel.Config.  "extra_config: Extra.allow" is an annotation, not an
\* assignment: it sets no attribute, and pydantic's own "extra" keeps its
\* default, Extra.ignore.
ConfigExtra == "ignore"
anystr_strip_whitespace == TRUE
allow_population_by_field_name == TRUE

\* The aliases of a class's fields, each through the cached generator, as
\* pydantic computes them when the class statement runs.
RECURSIVE AliasFields(_, _, _)
AliasFields(c, fields, acc) ==
    IF fields = <<>> THEN [cache |-> c, aliases |-> acc]
    ELSE LET r == CachedCall(c, Head(fields).name)
         IN  AliasFields(r.cache, Tail(fields), Append(acc, r.v))

----------------------------------------------------------------------------
(* ipaddress *)

\* the addresses and networks whose text occurs in the documents drawn
KnownAddresses == {5, 167772170, 167772260}
KnownNetworks == {<<"10.0.0.0/24">>}

\* str(IPv4Address(n)): the dotted quad
Dotted(n) ==
    ToString(n \div 16777216) \o "." \o ToString((n \div 65536) % 256) \o "."
    \o ToString((n \div 256) % 256) \o "." \o ToString(n % 256)

Parsed(n) == [ok |-> TRUE, n |-> n]
NotParsed == [ok |-> FALSE, n |-> 0]

\* the mutant: the blanks around a dotted quad are dropped before it is read
ParseIPv4Address_Lenient(x) ==
    CASE x.t = "int" ->
            IF 0 <= x.n /\ x.n \div 65536 < 65536 THEN Parsed(x.n) ELSE NotParsed
      [] x.t = "bool" -> Parsed(IF x.b THEN 1 ELSE 0)
      [] x.t = "str" ->
            IF Len(Strip(x.s)) = 1 /\ \E n \in KnownAddresses : Dotted(n) = Strip(x.s)[1]
            THEN Parsed(CHOOSE n \in KnownAddresses : Dotted(n) = Strip(x.s)[1])
            ELSE NotParsed
      [] OTHER -> NotParsed

\* ipaddress.IPv4Address(x): an int in range is the address itself (a bool is
\* an int); anything else is read through str(x), which must be a dotted
\* quad, with no blank around it
ParseIPv4Address(x) ==
    CASE x.t = "int" ->
            \* 0 <= n < 2^32, written on the two 16-bit halves
            IF 0 <= x.n /\ x.n \div 65536 < 65536 THEN Parsed(x.n) ELSE NotParsed
      [] x.t = "bool" -> Parsed(IF x.b THEN 1 ELSE 0)
      [] x.t = "str" ->
            IF Len(x.s) = 1 /\ \E n \in KnownAddresses : Dotted(n) = x.s[1]
            THEN Parsed(CHOOSE n \in KnownAddresses : Dotted(n) = x.s[1])
            ELSE NotParsed
      [] OTHER -> NotParsed

----------------------------------------------------------------------------
(* Validators.  A validation returns [v |-> value, errs |-> errors]; an   *)
(* error is [loc |-> path, msg |-> kind], a path element a key or an index.*)

Ok(v) == [v |-> v, errs |-> <<>>]
Err(loc, msg) == [v |-> Null, errs |-> <<[loc |-> loc, msg |-> msg]>>]
LocKey(k) == [k |-> k, i |-> -1]
LocIdx(i) == [k |-> <<>>, i |-> i]

Raised(msg) == [raised |-> TRUE, v |-> Null, msg |-> msg]
Returned(v) == [raised |-> FALSE, v |-> v, msg |-> ""]

\* validate_pool's test of the length of a pool list
PoolLengthBad(v) == Len(v.items) > 2 \/ Len(v.items) < 1

\* the mutant: the two endpoints are rendered in ascending order
PoolRange_Sorted(addresses) ==
    LET a == addresses[1]
        b == addresses[Len(addresses)]
    IN  <<Dotted(IF a <= b THEN a ELSE b), " ", "-", " ",
          Dotted(IF a <= b THEN b ELSE a)>>

\* validate_pool's rendering of one or two parsed addresses
PoolRange(addresses) ==
    IF Len(addresses) = 1
    THEN Join(<<" ", "-", " ">>, <<<<Dotted(addresses[1])>>, <<Dotted(addresses[1])>>>>)
    ELSE Join(<<" ", "-", " ">>, [i \in DOMAIN addresses |-> <<Dotted(addresses[i])>>])

\* KeaPool4.validate_pool, the pre-validator of the field pool
RECURSIVE validate_pool(_)
validate_pool(v) ==
    IF v.t = "list"
    THEN IF PoolLengthBad(v)
         THEN Raised("Pool list must have length 0 < len(pool) <= 2")
         ELSE IF \E i \in DOMAIN v.items : ~ParseIPv4Address(v.items[i]).ok
         THEN Raised("Pool entries must be valid IPv4 addresses")
         ELSE IF Len(v.items) \in {1, 2}
         THEN Returned(S(PoolRange([i \in DOMAIN v.items |->
                                        ParseIPv4Address(v.items[i]).n])))
         ELSE Raised("Undetermined state")
    ELSE IF v.t = "str"
    THEN validate_pool(L([i \in DOMAIN Split(v.s, "-") |-> S(Strip(Split(v.s, "-")[i]))]))
    ELSE Returned(v)

\* str(n) for an int
IntStr(n) == IF n < 0 THEN <<"-", ToString(0 - n)>> ELSE <<ToString(n)>>

\* pydantic's str_validator, then anystr_strip_whitespace
str_validator(v, loc) ==
    LET strip(s) == IF anystr_strip_whitespace THEN Strip(s) ELSE s
    IN  CASE v.t = "str" -> Ok(S(strip(v.s)))
          [] v.t = "int" -> Ok(S(strip(IntStr(v.n))))
          [] v.t = "bool" -> Ok(S(<<IF v.b THEN "True" ELSE "False">>))
          [] OTHER -> Err(loc, "type_error.str")

\* pydantic's int_validator and the bound of a constrained int.  The str
\* that int() reads here are the plain decimal numerals.
int_validator(v, gt, loc) ==
    LET bounded(n) ==
            IF n > gt THEN Ok(I(n))
            ELSE Err(loc, IF gt = -1 THEN "value_error.number.not_ge"
                          ELSE "value_error.number.not_gt")
        num(s) == {n \in 0..4000 : Strip(s) = <<ToString(n)>>}
    IN  CASE v.t = "int" -> bounded(v.n)
          [] v.t = "bool" -> bounded(IF v.b THEN 1 ELSE 0)
          [] v.t = "str" /\ num(v.s) # {} -> bounded(CHOOSE n \in num(v.s) : TRUE)
          [] OTHER -> Err(loc, "type_error.integer")

\* pydantic's bool_validator
bool_validator(v, loc) ==
    LET yes == {"1", "on", "t", "true", "y", "yes"}
        no == {"0", "off", "f", "false", "n", "no"}
    IN  CASE v.t = "bool" -> Ok(v)
          [] v.t = "int" /\ v.n \in {0, 1} -> Ok(B(v.n = 1))
          [] v.t = "str" /\ Len(v.s) = 1 /\ v.s[1] \in yes -> Ok(B(TRUE))
          [] v.t = "str" /\ Len(v.s) = 1 /\ v.s[1] \in no -> Ok(B(FALSE))
          [] OTHER -> Err(loc, "type_error.bool")

\* pydantic's path_validator: pathlib.Path(v); Path("") is "."
path_validator(v, loc) ==
    IF v.t = "str" THEN Ok([t |-> "path", s |-> IF v.s = <<>> THEN <<".">> ELSE v.s])
    ELSE Err(loc, "type_error.path")

ip_v4_address_validator(v, loc) ==
    IF ParseIPv4Address(v).ok THEN Ok([t |-> "ipv4", n |-> ParseIPv4Address(v).n])
    ELSE Err(loc, "value_error.ipv4address")

ip_v4_network_validator(v, loc) ==
    CASE v.t = "str" /\ v.s \in KnownNetworks -> Ok([t |-> "ipv4net", s |-> v.s])
      [] v.t \in {"int", "bool"} /\ ParseIPv4Address(v).ok ->
            Ok([t |-> "ipv4net", s |-> <<Dotted(ParseIPv4Address(v).n) \o "/32">>])
      [] OTHER -> Err(loc, "value_error.ipv4network")

\* make_literal_validator: a lookup of the value among the permitted ones
literal_validator(v, vals, loc) ==
    IF v.t = "str" /\ v.s \in vals THEN Ok(v) ELSE Err(loc, "value_error.const")

\* dict(v) for a value that is no dict: the empty iterables give {}
AsDict(v) ==
    CASE v.t = "obj" -> [ok |-> TRUE, kv |-> v.kv]
      [] v.t = "list" /\ v.items = <<>> -> [ok |-> TRUE, kv |-> <<>>]
      [] v.t = "str" /\ v.s = <<>> -> [ok |-> TRUE, kv |-> <<>>]
      [] OTHER -> [ok |-> FALSE, kv |-> <<>>]

dict_validator(v, loc) ==
    IF AsDict(v).ok THEN Ok(O(AsDict(v).kv)) ELSE Err(loc, "type_error.dict")

\* truth value of values.get(x) in a root validator
Truthy(v) ==
    CASE v.t = "null" -> FALSE
      [] v.t = "str" -> v.s # <<>>
      [] v.t = "int" -> v.n # 0
      [] v.t = "bool" -> v.b
      [] OTHER -> TRUE

\* the mutant: the validator accepts every option
validate_code_or_name_Accept(values) == TRUE

\* KeaDhcpOption.validate_code_or_name: TRUE when it returns the values,
\* FALSE when it raises
validate_code_or_name(values) ==
    \E x \in {<<"name">>, <<"code">>} : HasKey(values, x) /\ Truthy(Get(values, x))

----------------------------------------------------------------------------
(* Construction of a model from a mapping (pydantic's validate_model).    *)
(* al is the table of the aliases stored on the fields.                    *)

RECURSIVE ValidateType(_, _, _, _)
RECURSIVE ValidateField(_, _, _, _, _)
RECURSIVE ValidateModel(_, _, _, _)
RECURSIVE DefaultOf(_, _)

\* one value against one type that is no list
ValidateType(al, ty, v, loc) ==
    CASE ty.k = "str" -> str_validator(v, loc)
      [] ty.k = "int" -> int_validator(v, ty.gt, loc)
      [] ty.k = "bool" -> bool_validator(v, loc)
      [] ty.k = "path" -> path_validator(v, loc)
      [] ty.k = "ipv4" -> ip_v4_address_validator(v, loc)
      [] ty.k = "ipv4net" -> ip_v4_network_validator(v, loc)
      [] ty.k = "lit" -> literal_validator(v, ty.vals, loc)
      [] ty.k = "dict" -> dict_validator(v, loc)
      [] ty.k = "model" ->
            IF AsDict(v).ok THEN ValidateModel(al, ty.cls, AsDict(v).kv, loc)
            ELSE Err(loc, "type_error.dict")

\* the outcome of a list whose items were validated one by one
ListResult(rs) ==
    IF \E i \in DOMAIN rs : rs[i].errs # <<>>
    THEN [v |-> Null, errs |-> Concat([i \in DOMAIN rs |-> rs[i].errs])]
    ELSE Ok(L([i \in DOMAIN rs |-> rs[i].v]))

\* ModelField.validate after the pre-validators: None, then the type
ValidateAfterPre(al, f, pre, loc) ==
    IF pre.raised THEN Err(loc, pre.msg)
    ELSE IF pre.v.t = "null"
    THEN IF f.allow_none THEN Ok(Null)
         ELSE Err(loc, "type_error.none.not_allowed")
    ELSE IF f.ty.k = "list"
    THEN IF pre.v.t # "list" THEN Err(loc, "type_error.list")
         ELSE ListResult([i \in DOMAIN pre.v.items |->
                            ValidateType(al, f.ty.of, pre.v.items[i],
                                         Append(loc, LocIdx(i - 1)))])
    ELSE ValidateType(al, f.ty, pre.v, loc)

\* ModelField.validate: the pre-validators (KeaPool4 has one, on pool) first
ValidateField(al, cls, f, v, loc) ==
    ValidateAfterPre(al, f,
                     IF cls = "KeaPool4" /\ f.name = <<"pool">>
                     THEN validate_pool(v) ELSE Returned(v),
                     loc)

\* the value of a field that the input does not give
DefaultOf(al, def) ==
    CASE def.k = "value" -> def.v
      [] def.k = "factory" /\ def.f = "KeaLeaseDatabase" ->
            ValidateModel(al, "KeaLeaseDatabase", <<>>, <<>>).v
      [] def.k = "factory" /\ def.f = "KeaExpiredLeasesProcessing" ->
            ValidateModel(al, "KeaExpiredLeasesProcessing", <<>>, <<>>).v
      [] def.k = "factory" /\ def.f = "get_default_kea4" ->
            ValidateModel(al, "KeaControlSocket",
                <<KV(<<"socket", "_", "name">>,
                     S(<<"/tmp/kea4", "-", "ctrl", "-", "socket">>))>>, <<>>).v
      [] def.k = "factory" /\ def.f = "get_default_dhcp4" ->
            L(<<ValidateModel(al, "KeaLogger",
                <<KV(<<"name">>, S(<<"kea", "-", "dhcp4">>)),
                  KV(<<"output", "_", "options">>,
                     L(<<O(<<KV(<<"output">>,
                                S(<<"/var/log/kea/kea", "-", "dhcp4.log">>))>>)>>)),
                  KV(<<"severity">>, S(<<"INFO">>)),
                  KV(<<"debuglevel">>, I(0))>>, <<>>).v>>)

\* what validate_model adds to the values for the input keys that no field
\* used, by Config.extra
ExtraValues(kv, used) ==
    IF ConfigExtra = "allow" THEN SelectSeq(kv, LAMBDA e : e.k \notin used)
    ELSE <<>>

\* validate_model's lookup of field i: by its alias, else by its name
ByAlias(al, cls, kv, i) == HasKey(kv, al[cls][i])
ByName(al, cls, kv, i) ==
    /\ ~ByAlias(al, cls, kv, i)
    /\ allow_population_by_field_name
    /\ al[cls][i] # Fields(cls)[i].name
    /\ HasKey(kv, Fields(cls)[i].name)
Given(al, cls, kv, i) == ByAlias(al, cls, kv, i) \/ ByName(al, cls, kv, i)
UsedKey(al, cls, kv, i) ==
    IF ByAlias(al, cls, kv, i) THEN al[cls][i] ELSE Fields(cls)[i].name
UsedKeys(al, cls, kv) ==
    {UsedKey(al, cls, kv, i) : i \in {j \in DOMAIN Fields(cls) : Given(al, cls, kv, j)}}

\* the values of the fields that validated, in field order, then the extras
ModelValues(cls, rs, extras) ==
    LET good == SelectSeq([i \in DOMAIN rs |-> i], LAMBDA i : rs[i].errs = <<>>)
    IN  [j \in DOMAIN good |-> KV(Fields(cls)[good[j]].name, rs[good[j]].v)] \o extras

\* the root validators run on the values, whatever the errors so far
ModelResult(cls, loc, rs, values) ==
    [v |-> [t |-> "model", cls |-> cls, kv |-> values],
     errs |-> Concat([i \in DOMAIN rs |-> rs[i].errs])
              \o IF cls = "KeaDhcpOption" /\ ~validate_code_or_name(values)
                 THEN <<[loc |-> Append(loc, LocKey(<<"__root__">>)),
                         msg |-> "Either 'name' or 'code' must be set."]>>
                 ELSE <<>>]

ModelOf(cls, loc, rs, extras) ==
    ModelResult(cls, loc, rs, ModelValues(cls, rs, extras))

ValidateModel(al, cls, kv, loc) ==
    ModelOf(cls, loc,
            [i \in DOMAIN Fields(cls) |->
                IF Given(al, cls, kv, i)
                THEN ValidateField(al, cls, Fields(cls)[i],
                                   Get(kv, UsedKey(al, cls, kv, i)),
                                   Append(loc, LocKey(al[cls][i])))
                ELSE IF Fields(cls)[i].def.k = "required"
                THEN Err(Append(loc, LocKey(al[cls][i])), "value_error.missing")
                ELSE Ok(DefaultOf(al, Fields(cls)[i].def))],
            ExtraValues(kv, UsedKeys(al, cls, kv)))

----------------------------------------------------------------------------
(* Rendering: BaseModel.json(by_alias=True, indent=2, sort_keys=True,     *)
(* exclude_none=True) is .dict() followed by json.dumps.                   *)

RECURSIVE ToDict(_, _)
RECURSIVE GetValue(_, _)

\* the mutant: the fields that are None are emitted too
ExcludeNone_Off(v) == FALSE

\* BaseModel._iter's test under exclude_none, on the fields of a model
ExcludeNone(v) == v.t = "null"

\* the key a model's entry i is emitted under: the alias of a declared
\* field, the input's own key for an extra one
OutputKey(al, cls, i, name) ==
    IF i <= Len(Fields(cls)) THEN al[cls][i] ELSE name

\* BaseModel._get_value: models become dicts, lists and dicts are walked;
\* the entries of a dict are all kept
GetValue(al, v) ==
    CASE v.t = "model" -> ToDict(al, v)
      [] v.t = "list" -> L([i \in DOMAIN v.items |-> GetValue(al, v.items[i])])
      [] v.t = "obj" -> O([i \in DOMAIN v.kv |-> KV(v.kv[i].k, GetValue(al, v.kv[i].v))])
      [] OTHER -> v

\* BaseModel.dict(by_alias=True, exclude_none=True), fields in their order
ToDict(al, m) ==
    LET keep == SelectSeq([i \in DOMAIN m.kv |-> i], LAMBDA i : ~ExcludeNone(m.kv[i].v))
    IN  O([j \in DOMAIN keep |->
             KV(OutputKey(al, m.cls, keep[j], m.kv[keep[j]].k),
                GetValue(al, m.kv[keep[j]].v))])

\* the mutant: the keys stay in the order of the dict
SortItems_Off(kv) == kv

\* sorted(dict.items()): insertion sort by key
RECURSIVE SortItems(_)
SortItems(kv) ==
    IF kv = <<>> THEN <<>>
    ELSE LET rest == SortItems(Tail(kv))
             before == SelectSeq(rest, LAMBDA e : StrLess(e.k, Head(kv).k))
             after == SelectSeq(rest, LAMBDA e : ~StrLess(e.k, Head(kv).k))
         IN  before \o <<Head(kv)>> \o after

\* json.dumps(..., default=pydantic_encoder, sort_keys=True): the document
\* as a tree, each object's entries in the order of the text
RECURSIVE JsonDumps(_)
JsonDumps(v) ==
    CASE v.t = "obj" ->
            LET kv == SortItems(v.kv)
            IN  O([i \in DOMAIN kv |-> KV(kv[i].k, JsonDumps(kv[i].v))])
      [] v.t = "list" -> L([i \in DOMAIN v.items |-> JsonDumps(v.items[i])])
      [] v.t = "path" -> S(v.s)
      [] v.t = "ipv4" -> S(<<Dotted(v.n)>>)
      [] v.t = "ipv4net" -> S(v.s)
      [] OTHER -> v

RenderedOk(text) == [ok |-> TRUE, text |-> text, errs |-> <<>>]
RaisedValidationError(errs) == [ok |-> FALSE, text |-> Null, errs |-> errs]
NoResult == [ok |-> FALSE, text |-> Null, errs |-> <<>>]

\* KeaConfigFileDhcp4(Dhcp4=dhcp4).json(...), or the error of parse_obj
Rendered(al, dhcp4) ==
    IF dhcp4.errs # <<>> THEN RaisedValidationError(dhcp4.errs)
    ELSE RenderedOk(JsonDumps(ToDict(al, [t |-> "model", cls |-> "KeaConfigFileDhcp4",
                                          kv |-> <<KV(<<"Dhcp4">>, dhcp4.v)>>])))

\* KeaFilters.get_kea4_config(data), with the aliases al stored at import
get_kea4_config(al, d) ==
    IF ~AsDict(d).ok
    THEN RaisedValidationError(<<[loc |-> <<LocKey(<<"__root__">>)>>, msg |-> "type_error.dict"]>>)
    ELSE Rendered(al, ValidateModel(al, "KeaDhcp4Config", AsDict(d).kv, <<>>))

----------------------------------------------------------------------------
(* The documents drawn as input *)

A1 == "10.0.0.10"
A2 == "10.0.0.100"
Net == S(<<"10.0.0.0/24">>)

SeqsUpTo(set, n) == UNION {[1..k -> set] : k \in 0..n}

\* the entries of a pool list: two addresses as text, one as a number, a text
\* that is no address, an address with a blank before it, and None
PoolEntries == {S(<<A1>>), S(<<A2>>), I(5), S(<<"x">>), S(<<" ", A1>>), Null}
PoolTokens == {A1, A2, "-", " "}

PoolValues ==
    {L(items) : items \in SeqsUpTo(PoolEntries, MaxPoolLen)}
    \cup {S(s) : s \in SeqsUpTo(PoolTokens, MaxStrLen)}
    \cup {I(5), B(TRUE), Null, O(<<>>)}

TopDoc(kv) == O(kv)
SubnetDoc(kv) ==
    O(<<KV(<<"subnet4">>, L(<<O(<<KV(<<"subnet">>, Net)>> \o kv)>>))>>)
PoolDoc(kv) == SubnetDoc(<<KV(<<"pools">>, L(<<O(kv)>>))>>)
ClassDoc(kv) ==
    O(<<KV(<<"client", "-", "classes">>,
           L(<<O(<<KV(<<"name">>, S(<<"voip">>)),
                   KV(<<"test">>, S(<<"member('ALL')">>))>> \o kv)>>))>>)
ReservationDoc(kv) ==
    SubnetDoc(<<KV(<<"reservations">>,
                   L(<<O(<<KV(<<"ip", "-", "address">>, S(<<A1>>))>> \o kv)>>))>>)
LoggerDoc(kv, out) ==
    O(<<KV(<<"loggers">>,
           L(<<O(<<KV(<<"name">>, S(<<"kea", "-", "dhcp4">>)),
                   KV(<<"output", "_", "options">>,
                      L(<<O(<<KV(<<"output">>, S(<<"stdout">>))>> \o out)>>)),
                   KV(<<"severity">>, S(<<"DEBUG">>))>> \o kv)>>))>>)

OptionNames ==
    {<<>>, <<KV(<<"name">>, Null)>>, <<KV(<<"name">>, S(<<>>))>>,
     <<KV(<<"name">>, S(<<" ">>))>>, <<KV(<<"name">>, S(<<"routers">>))>>}
OptionCodes ==
    {<<>>, <<KV(<<"code">>, Null)>>, <<KV(<<"code">>, I(0))>>,
     <<KV(<<"code">>, I(3))>>, <<KV(<<"code">>, I(-1))>>}
OptionData == {<<>>, <<KV(<<"data">>, S(<<"10.0.0.1">>))>>}

OptionInputs ==
    {O(n \o c \o d) : n \in OptionNames, c \in OptionCodes, d \in OptionData}

\* an option list at each place of the tree that takes one
OptionPlaces == {"global", "subnet", "pool", "class", "reservation"}
OptionDoc(place, o) ==
    LET od == <<KV(<<"option", "-", "data">>, L(<<o>>))>>
    IN  CASE place = "global" -> TopDoc(od)
          [] place = "subnet" -> SubnetDoc(od)
          [] place = "pool" -> PoolDoc(<<KV(<<"pool">>, S(<<A1, "-", A2>>))>> \o od)
          [] place = "class" -> ClassDoc(od)
          [] place = "reservation" -> ReservationDoc(od)

\* a key that no class declares, at each kind of record
Unknown == <<KV(<<"comment">>, S(<<"kept">>))>>
ExtraPlaces == {"top", "subnet", "pool", "option", "logger", "output", "database"}
ExtraDoc(place) ==
    CASE place = "top" -> TopDoc(Unknown)
      [] place = "subnet" -> SubnetDoc(Unknown)
      [] place = "pool" -> PoolDoc(<<KV(<<"pool">>, S(<<A1, "-", A2>>))>> \o Unknown)
      [] place = "option" ->
            TopDoc(<<KV(<<"option", "-", "data">>,
                        L(<<O(<<KV(<<"code">>, I(3))>> \o Unknown)>>))>>)
      [] place = "logger" -> LoggerDoc(Unknown, <<>>)
      [] place = "output" -> LoggerDoc(<<>>, Unknown)
      [] place = "database" -> TopDoc(<<KV(<<"lease", "-", "database">>, O(Unknown))>>)

\* the two spellings of a key, optional blocks given empty, fields given as
\* None, and user contexts
OtherDocs ==
    { TopDoc(<<>>),
      TopDoc(<<KV(<<"valid", "-", "lifetime">>, I(10))>>),
      TopDoc(<<KV(<<"valid", "_", "lifetime">>, I(10))>>),
      TopDoc(<<KV(<<"valid", "_", "lifetime">>, I(20)),
               KV(<<"valid", "-", "lifetime">>, I(10))>>),
      TopDoc(<<KV(<<"valid", "-", "lifetime">>, I(-1))>>),
      TopDoc(<<KV(<<"valid", "-", "lifetime">>, Null)>>),
      TopDoc(<<KV(<<"lease", "_", "database">>,
                  O(<<KV(<<"lfc", "_", "interval">>, I(60))>>))>>),
      TopDoc(<<KV(<<"lease", "-", "database">>,
                  O(<<KV(<<"lfc", "-", "interval">>, I(60))>>))>>),
      TopDoc(<<KV(<<"lease", "-", "database">>, Null)>>),
      TopDoc(<<KV(<<"control", "-", "socket">>, Null)>>),
      TopDoc(<<KV(<<"interfaces", "-", "config">>, O(<<>>))>>),
      TopDoc(<<KV(<<"interfaces", "_", "config">>,
                  O(<<KV(<<"interfaces">>, L(<<S(<<"eth0">>)>>)),
                      KV(<<"re", "_", "detect">>, B(FALSE))>>))>>),
      TopDoc(<<KV(<<"interfaces", "-", "config">>, S(<<>>))>>),
      TopDoc(<<KV(<<"sanity", "-", "checks">>, O(<<>>))>>),
      TopDoc(<<KV(<<"sanity", "-", "checks">>,
                  O(<<KV(<<"lease", "-", "checks">>, S(<<"warn">>))>>))>>),
      TopDoc(<<KV(<<"sanity", "-", "checks">>,
                  O(<<KV(<<"lease", "-", "checks">>, S(<<"strict">>))>>))>>),
      TopDoc(<<KV(<<"loggers">>, L(<<>>))>>),
      LoggerDoc(<<>>, <<>>),
      LoggerDoc(<<KV(<<"debuglevel">>, I(99))>>, <<KV(<<"maxsize">>, I(0))>>),
      SubnetDoc(<<>>),
      SubnetDoc(<<KV(<<"interface">>, S(<<"eth0">>))>>),
      SubnetDoc(<<KV(<<"interface">>, Null)>>),
      SubnetDoc(<<KV(<<"relay">>,
                     O(<<KV(<<"ip", "-", "addresses">>, L(<<S(<<A1>>), I(5)>>))>>))>>),
      SubnetDoc(<<KV(<<"user", "-", "context">>,
                     O(<<KV(<<"site">>, S(<<"lab">>))>>))>>),
      SubnetDoc(<<KV(<<"user", "-", "context">>,
                     O(<<KV(<<"site">>, S(<<"lab">>)), KV(<<"note">>, Null)>>))>>),
      PoolDoc(<<KV(<<"pool">>, L(<<S(<<A1>>)>>)),
                KV(<<"user", "-", "context">>, O(<<KV(<<"note">>, Null)>>))>>),
      PoolDoc(<<>>) }

Documents ==
    {PoolDoc(<<KV(<<"pool">>, p)>>) : p \in PoolValues}
    \cup {OptionDoc(place, o) : place \in OptionPlaces, o \in OptionInputs}
    \cup {ExtraDoc(place) : place \in ExtraPlaces}
    \cup OtherDocs

----------------------------------------------------------------------------
(* The state machine *)

Init ==
    /\ pc = "import"
    /\ defined = 0
    /\ cache = <<>>
    /\ alias = [c \in Classes |-> <<>>]
    /\ data = Null
    /\ result = NoResult
    /\ calls = 0
    /\ lastOk = TRUE

\* the next class statement of the module runs: pydantic computes the alias
\* of each of its fields through the cached generator and stores it
DefineClass ==
    /\ pc = "import"
    /\ defined < Len(ClassOrder)
    /\ LET cls == ClassOrder[defined + 1]
           r == AliasFields(cache, Fields(cls), <<>>)
       IN  /\ cache' = r.cache
           /\ alias' = [alias EXCEPT ![cls] = r.aliases]
    /\ defined' = defined + 1
    /\ pc' = IF defined + 1 = Len(ClassOrder) THEN "ready" ELSE "import"
    /\ UNCHANGED <<data, result, calls, lastOk>>

\* the host calls the filter with a document and gets the text or the error
GetKea4Config(d) ==
    /\ pc = "ready"
    /\ calls < MaxCalls
    /\ data' = d
    /\ result' = get_kea4_config(alias, d)
    /\ pc' = "returned"
    /\ UNCHANGED <<defined, cache, alias, calls, lastOk>>

\* the host takes the outcome; the tree built by the call is discarded
Return ==
    /\ pc = "returned"
    /\ lastOk' = result.ok
    /\ calls' = calls + 1
    /\ data' = Null
    /\ result' = NoResult
    /\ pc' = "ready"
    /\ UNCHANGED <<defined, cache, alias>>

Next ==
    \/ DefineClass
    \/ \E d \in Documents : GetKea4Config(d)
    \/ Return

Spec == Init /\ [][Next]_vars

----------------------------------------------------------------------------
(* Reading a document *)

Missing == [t |-> "missing"]
Key(k) == [k |-> k, i |-> 0]
Nth(i) == [k |-> <<>>, i |-> i]
Child(v, k) == IF v.t = "obj" /\ HasKey(v.kv, k) THEN Get(v.kv, k) ELSE Missing
Item(v, i) == IF v.t = "list" /\ i \in DOMAIN v.items THEN v.items[i] ELSE Missing

\* the value at a path of keys and positions, Missing when there is none
RECURSIVE At(_, _)
At(v, path) ==
    IF path = <<>> THEN v
    ELSE At(IF Head(path).i = 0 THEN Child(v, Head(path).k) ELSE Item(v, Head(path).i),
            Tail(path))

Called == pc = "returned"
Accepted == Called /\ result.ok
Rejected == Called /\ ~result.ok /\ result.errs # <<>>

SubnetPath == <<Key(<<"subnet4">>), Nth(1)>>
PoolPath == SubnetPath \o <<Key(<<"pools">>), Nth(1)>>
InPool == At(data, PoolPath \o <<Key(<<"pool">>)>>)
OutPool == At(result.text, <<Key(<<"Dhcp4">>)>> \o PoolPath \o <<Key(<<"pool">>)>>)

\* the call was made with a document whose one pool gives the field pool only
PoolCall == Called /\ InPool # Missing /\ data = PoolDoc(<<KV(<<"pool">>, InPool)>>)

\* the text of the valid addresses among the entries drawn
AddressText(e) ==
    CASE e = S(<<A1>>) -> A1
      [] e = S(<<A2>>) -> A2
      [] e = I(5) -> "0.0.0.5"
      [] OTHER -> "none"
IsAddress(e) == AddressText(e) # "none"

\* the list a pool string stands for: its parts between "-", trimmed
PartsOf(s) == L([i \in DOMAIN Split(s, "-") |-> S(Strip(Split(s, "-")[i]))])

----------------------------------------------------------------------------
(* C2 *)

\* C2: a pool list of one or two valid addresses renders as "<a> - <b>" in
\* the order given ([x] as "<x> - <x>"), and a pool string renders as the
\* list of its trimmed "-"-separated parts does, "10.0.0.10-10.0.0.100"
\* as "10.0.0.10 - 10.0.0.100".
C2_PoolNormalization ==
    PoolCall =>
        /\ ( /\ InPool.t = "list"
             /\ Len(InPool.items) \in {1, 2}
             /\ \A i \in DOMAIN InPool.items : IsAddress(InPool.items[i]) )
           => /\ result.ok
              /\ OutPool = S(<<AddressText(InPool.items[1]), " ", "-", " ",
                               AddressText(InPool.items[Len(InPool.items)])>>)
        /\ InPool.t = "str"
           => result = get_kea4_config(alias, PoolDoc(<<KV(<<"pool">>, PartsOf(InPool.s))>>))
        /\ InPool = S(<<A1, "-", A2>>)
           => OutPool = S(<<A1, " ", "-", " ", A2>>)

\* a pool given high address first was rendered
C2_Witness ==
    PoolCall /\ InPool = L(<<S(<<A2>>), S(<<A1>>)>>) /\ result.ok

----------------------------------------------------------------------------
(* C3 *)

BadPoolList(v) ==
    \/ Len(v.items) = 0
    \/ Len(v.items) > 2
    \/ \E i \in DOMAIN v.items : ~IsAddress(v.items[i])

\* C3: a pool list of length 0 or above 2, or with an entry that is no IPv4
\* address, fails validation, and so does a string whose parts form such a
\* list; the render raises.
C3_BadPoolFails ==
    PoolCall =>
        /\ (InPool.t = "list" /\ BadPoolList(InPool)) => Rejected
        /\ (InPool.t = "str" /\ BadPoolList(PartsOf(InPool.s))) => Rejected

\* a pool of three valid addresses was refused
C3_Witness ==
    PoolCall /\ InPool = L(<<S(<<A1>>), S(<<A2>>), S(<<A1>>)>>) /\ ~result.ok

----------------------------------------------------------------------------
(* C8 *)

IsCanonicalPool(v) ==
    /\ v.t = "str"
    /\ Len(v.s) = 5
    /\ SubSeq(v.s, 2, 4) = <<" ", "-", " ">>
    /\ \E a, b \in KnownAddresses : v.s[1] = Dotted(a) /\ v.s[5] = Dotted(b)

\* C8: every pool that is accepted, whatever the type of the raw value, has
\* the form "<addr1> - <addr2>" with two valid IPv4 addresses.
C8_PoolAlwaysCanonical ==
    (PoolCall /\ result.ok) => IsCanonicalPool(OutPool)

----------------------------------------------------------------------------
(* C4, C9 *)

OptionPath(place) ==
    CASE place = "global" -> <<>>
      [] place = "subnet" -> SubnetPath
      [] place = "pool" -> PoolPath
      [] place = "class" -> <<Key(<<"client", "-", "classes">>), Nth(1)>>
      [] place = "reservation" -> SubnetPath \o <<Key(<<"reservations">>), Nth(1)>>
InOption(place) ==
    At(data, OptionPath(place) \o <<Key(<<"option", "-", "data">>), Nth(1)>>)

\* the call was made with a document whose one option is at this place
OptionCall(place) ==
    Called /\ InOption(place) # Missing /\ data = OptionDoc(place, InOption(place))

Unset(o, k) == Child(o, k) \in {Missing, Null}

\* C4: an option with neither name nor code set fails validation at every
\* place of the tree that takes options, and the render raises.
C4_OptionNeedsNameOrCode ==
    \A place \in OptionPlaces :
        (OptionCall(place) /\ Unset(InOption(place), <<"name">>)
                           /\ Unset(InOption(place), <<"code">>))
        => Rejected

\* an option with data only, in a reservation, was refused
C4_Witness ==
    /\ OptionCall("reservation")
    /\ InOption("reservation") = O(<<KV(<<"data">>, S(<<"10.0.0.1">>))>>)
    /\ ~result.ok

ValidName(o) == Unset(o, <<"name">>) \/ Child(o, <<"name">>).t = "str"
ValidCode(o) ==
    Unset(o, <<"code">>) \/ (Child(o, <<"code">>).t = "int" /\ Child(o, <<"code">>).n >= 0)

\* C9: an option is accepted whenever name or code is present and each of
\* the two that is present is valid (any string, any integer from 0 up).
C9_OptionWithNameOrCodeAccepted ==
    \A place \in OptionPlaces :
        ( /\ OptionCall(place)
          /\ ValidName(InOption(place)) /\ ValidCode(InOption(place))
          /\ ~(Unset(InOption(place), <<"name">>) /\ Unset(InOption(place), <<"code">>)) )
        => result.ok

----------------------------------------------------------------------------
(* C1 *)

ExtraPath(place) ==
    CASE place = "top" -> <<>>
      [] place = "subnet" -> SubnetPath
      [] place = "pool" -> PoolPath
      [] place = "option" -> <<Key(<<"option", "-", "data">>), Nth(1)>>
      [] place = "logger" -> <<Key(<<"loggers">>), Nth(1)>>
      [] place = "output" ->
            <<Key(<<"loggers">>), Nth(1), Key(<<"output", "_", "options">>), Nth(1)>>
      [] place = "database" -> <<Key(<<"lease", "-", "database">>)>>

\* C1: a key of the input that its record does not declare is in the
\* rendered document, with the same key and value at the same place.
C1_UnknownKeysPreserved ==
    \A place \in ExtraPlaces :
        (Called /\ data = ExtraDoc(place))
        => /\ result.ok
           /\ At(result.text, <<Key(<<"Dhcp4">>)>> \o ExtraPath(place) \o <<Key(<<"comment">>)>>)
              = S(<<"kept">>)

----------------------------------------------------------------------------
(* C5 *)

Dhcp4At(path) == At(result.text, <<Key(<<"Dhcp4">>)>> \o path)

DefaultLeaseDatabase ==
    O(<<KV(<<"lfc", "-", "interval">>, I(3600)), KV(<<"type">>, S(<<"memfile">>))>>)
DefaultExpiredLeasesProcessing ==
    O(<<KV(<<"flush", "-", "reclaimed", "-", "timer", "-", "wait", "-", "time">>, I(25)),
        KV(<<"hold", "-", "reclaimed", "-", "time">>, I(3600)),
        KV(<<"max", "-", "reclaim", "-", "leases">>, I(100)),
        KV(<<"max", "-", "reclaim", "-", "time">>, I(250)),
        KV(<<"reclaim", "-", "timer", "-", "wait", "-", "time">>, I(10)),
        KV(<<"unwarned", "-", "reclaim", "-", "cycles">>, I(5))>>)
DefaultControlSocket ==
    O(<<KV(<<"socket", "-", "name">>, S(<<"/tmp/kea4", "-", "ctrl", "-", "socket">>)),
        KV(<<"socket", "-", "type">>, S(<<"unix">>))>>)
DefaultLoggers ==
    L(<<O(<<KV(<<"debuglevel">>, I(0)),
            KV(<<"name">>, S(<<"kea", "-", "dhcp4">>)),
            KV(<<"output", "_", "options">>,
               L(<<O(<<KV(<<"flush">>, B(FALSE)),
                       KV(<<"output">>, S(<<"/var/log/kea/kea", "-", "dhcp4.log">>))>>)>>)),
            KV(<<"severity">>, S(<<"INFO">>))>>)>>)
DefaultInterfacesConfig ==
    O(<<KV(<<"outbound", "-", "interface">>, S(<<"same", "-", "as", "-", "inbound">>)),
        KV(<<"re", "-", "detect">>, B(TRUE))>>)
DefaultSanityChecks ==
    O(<<KV(<<"lease", "-", "checks">>, S(<<"fix", "-", "del">>))>>)

\* the document of an empty input
DefaultDocument ==
    O(<<KV(<<"Dhcp4">>,
           O(<<KV(<<"control", "-", "socket">>, DefaultControlSocket),
               KV(<<"expired", "-", "leases", "-", "processing">>,
                  DefaultExpiredLeasesProcessing),
               KV(<<"lease", "-", "database">>, DefaultLeaseDatabase),
               KV(<<"loggers">>, DefaultLoggers),
               KV(<<"valid", "-", "lifetime">>, I(3600))>>))>>)

\* C5 as stated: the document of an empty input holds every documented
\* default, among them outbound interface same-as-inbound, re-detect true
\* and lease checks fix-del.
C5_EmptyInputAllDefaults ==
    (Called /\ data = TopDoc(<<>>))
    => /\ result.ok
       /\ Dhcp4At(<<Key(<<"lease", "-", "database">>)>>) = DefaultLeaseDatabase
       /\ Dhcp4At(<<Key(<<"expired", "-", "leases", "-", "processing">>)>>)
          = DefaultExpiredLeasesProcessing
       /\ Dhcp4At(<<Key(<<"control", "-", "socket">>)>>) = DefaultControlSocket
       /\ Dhcp4At(<<Key(<<"valid", "-", "lifetime">>)>>) = I(3600)
       /\ Dhcp4At(<<Key(<<"interfaces", "-", "config">>)>>) = DefaultInterfacesConfig
       /\ Dhcp4At(<<Key(<<"sanity", "-", "checks">>)>>) = DefaultSanityChecks
       /\ Dhcp4At(<<Key(<<"loggers">>), Nth(1), Key(<<"name">>)>>) = S(<<"kea", "-", "dhcp4">>)
       /\ Dhcp4At(<<Key(<<"loggers">>), Nth(1), Key(<<"severity">>)>>) = S(<<"INFO">>)
       /\ Dhcp4At(<<Key(<<"loggers">>), Nth(1), Key(<<"debuglevel">>)>>) = I(0)

\* C5, amended: the document of an empty input is exactly the lease
\* database, expired-leases, control socket, valid-lifetime and logger
\* defaults (the logger with its one output, flush false), with no null and
\* no interfaces-config or sanity-checks; the defaults of these two blocks
\* are in the document when the block is given, also given empty.
C5_EmptyInputDefaults ==
    /\ (Called /\ data = TopDoc(<<>>)) => result = RenderedOk(DefaultDocument)
    /\ (Called /\ data = TopDoc(<<KV(<<"interfaces", "-", "config">>, O(<<>>))>>))
       => Dhcp4At(<<Key(<<"interfaces", "-", "config">>)>>) = DefaultInterfacesConfig
    /\ (Called /\ data = TopDoc(<<KV(<<"sanity", "-", "checks">>, O(<<>>))>>))
       => Dhcp4At(<<Key(<<"sanity", "-", "checks">>)>>) = DefaultSanityChecks

\* the empty document was rendered
C5_Witness == Accepted /\ data = TopDoc(<<>>)

----------------------------------------------------------------------------
(* C6 *)

RECURSIVE SortedKeys(_)
SortedKeys(v) ==
    CASE v.t = "obj" ->
            /\ \A i \in 1..(Len(v.kv) - 1) : StrLess(v.kv[i].k, v.kv[i + 1].k)
            /\ \A i \in DOMAIN v.kv : SortedKeys(v.kv[i].v)
      [] v.t = "list" -> \A i \in DOMAIN v.items : SortedKeys(v.items[i])
      [] OTHER -> TRUE

RECURSIVE NoNullValue(_)
NoNullValue(v) ==
    CASE v.t = "obj" -> \A i \in DOMAIN v.kv : v.kv[i].v # Null /\ NoNullValue(v.kv[i].v)
      [] v.t = "list" -> \A i \in DOMAIN v.items : NoNullValue(v.items[i])
      [] OTHER -> TRUE

\* no key has a null value, the keys inside a user-context mapping apart
RECURSIVE NoNullField(_)
NoNullField(v) ==
    CASE v.t = "obj" ->
            \A i \in DOMAIN v.kv :
                \/ v.kv[i].k = <<"user", "-", "context">>
                \/ v.kv[i].v # Null /\ NoNullField(v.kv[i].v)
      [] v.t = "list" -> \A i \in DOMAIN v.items : NoNullField(v.items[i])
      [] OTHER -> TRUE

SingleRoot == result.text.t = "obj" /\ Keys(result.text.kv) = << <<"Dhcp4">> >>

NoInterfaceKey ==
    data \in {SubnetDoc(<<>>), SubnetDoc(<<KV(<<"interface">>, Null)>>)}
    => Dhcp4At(SubnetPath) # Missing /\ Dhcp4At(SubnetPath \o <<Key(<<"interface">>)>>) = Missing

\* C6 as stated: the text is one object with the one key "Dhcp4", the keys
\* of every object are sorted, and no key anywhere has a null value.
C6_SortedNoNullAnywhere ==
    Accepted => SingleRoot /\ SortedKeys(result.text) /\ NoNullValue(result.text)
                /\ NoInterfaceKey

\* C6, amended: the text is one object with the one key "Dhcp4", the keys of
\* every object are sorted, and no field of a record is emitted as null (a
\* subnet without interface has no interface key); the entries of a
\* user-context mapping are emitted as given, a null among them too.
C6_SortedNoNullField ==
    Accepted => SingleRoot /\ SortedKeys(result.text) /\ NoNullField(result.text)
                /\ NoInterfaceKey

\* a subnet whose interface is given as None was rendered
C6_Witness == Accepted /\ data = SubnetDoc(<<KV(<<"interface">>, Null)>>)

----------------------------------------------------------------------------
(* C7 *)

\* the reverse translation
Unhyphenate(k) == Replace(k, "-", "_")

RECURSIVE HyphenatedKeys(_)
HyphenatedKeys(v) ==
    CASE v.t = "obj" ->
            \A i \in DOMAIN v.kv :
                \/ v.kv[i].k = <<"user", "-", "context">>
                \/ /\ \/ v.kv[i].k = <<"output", "_", "options">>
                      \/ \A j \in DOMAIN v.kv[i].k : v.kv[i].k[j] # "_"
                   /\ HyphenatedKeys(v.kv[i].v)
      [] v.t = "list" -> \A i \in DOMAIN v.items : HyphenatedKeys(v.items[i])
      [] OTHER -> TRUE

\* C7: the alias of every declared field is its name with "_" replaced by
\* "-", output_options apart, which is its own alias; replacing "-" by "_"
\* in the alias gives the name back; a key of the input is taken in either
\* spelling and the document has the hyphenated one.
C7_FieldNameTranslation ==
    /\ \A cls \in Classes : \A i \in DOMAIN alias[cls] :
          LET name == Fields(cls)[i].name
          IN  IF name = <<"output", "_", "options">> THEN alias[cls][i] = name
              ELSE /\ alias[cls][i] = Replace(name, "_", "-")
                   /\ Unhyphenate(alias[cls][i]) = name
    /\ (Called /\ data \in {TopDoc(<<KV(<<"valid", "-", "lifetime">>, I(10))>>),
                            TopDoc(<<KV(<<"valid", "_", "lifetime">>, I(10))>>)})
       => Dhcp4At(<<Key(<<"valid", "-", "lifetime">>)>>) = I(10)
    /\ (Called /\ data \in {TopDoc(<<KV(<<"lease", "_", "database">>,
                                        O(<<KV(<<"lfc", "_", "interval">>, I(60))>>))>>),
                            TopDoc(<<KV(<<"lease", "-", "database">>,
                                        O(<<KV(<<"lfc", "-", "interval">>, I(60))>>))>>)})
       => Dhcp4At(<<Key(<<"lease", "-", "database">>), Key(<<"lfc", "-", "interval">>)>>) = I(60)
    /\ Accepted => HyphenatedKeys(result.text)

\* a document spelled with the field names was rendered
C7_Witness ==
    /\ Accepted
    /\ data = TopDoc(<<KV(<<"lease", "_", "database">>,
                          O(<<KV(<<"lfc", "_", "interval">>, I(60))>>))>>)

----------------------------------------------------------------------------
(* C10 *)

\* the aliases as the generator gives them, without the cache
PureAliases ==
    [c \in Classes |-> [i \in DOMAIN Fields(c) |-> kea_alias_generator(Fields(c)[i].name)]]

====
